---- MODULE Spec2Model ----
(***************************************************************************)
(* Model of the actix_tera_page middleware (src/src/lib.rs).               *)
(*                                                                         *)
(* TeraPage is the middleware factory; new_transform builds a              *)
(* TeraPageMiddleware whose `call` either renders a Tera template for a    *)
(* GET request or forwards the request to the wrapped service.             *)
(*                                                                         *)
(* Strings are sequences of one-character strings, so that trimming and    *)
(* concatenation (format!) are computed character by character.            *)
(***************************************************************************)
EXTENDS Integers, Sequences, FiniteSets, TLC

\* ------------------------------------------------------------------------
\* Bounds of the model
\* ------------------------------------------------------------------------

\* number of requests handled by the middleware instance
MaxReqs == 2

Reqs == 1..MaxReqs

\* ------------------------------------------------------------------------
\* String literals
\* ------------------------------------------------------------------------

Slash == "/"

\* ".html", the suffix of the first format! (lib.rs:165)
DotHtml == <<".", "h", "t", "m", "l">>

\* "/index.html", the suffix of the other two format! (lib.rs:166, 169)
SlashIndexHtml == <<"/", "i", "n", "d", "e", "x", ".", "h", "t", "m", "l">>

StrPages == <<"p", "a", "g", "e", "s">>
StrAbout == <<"a", "b", "o", "u", "t">>

\* prefixes given to TeraPage::new: "", "pages" (examples/navbar.rs:39), "/pages/"
ConfiguredPrefixes == { <<>>, StrPages, <<Slash>> \o StrPages \o <<Slash>> }

\* request methods
Methods == {"GET", "POST"}

\* request paths (req.path() always starts with "/"): "/", "//", "/about",
\* "/about/"
Paths == { <<Slash>>,
           <<Slash, Slash>>,
           <<Slash>> \o StrAbout,
           <<Slash>> \o StrAbout \o <<Slash>> }

\* template names a Tera instance may hold
TemplateNames ==
  { StrAbout \o DotHtml,                              \* about.html
    StrPages \o SlashIndexHtml,                       \* pages/index.html
    StrPages \o <<Slash>> \o StrAbout \o DotHtml,     \* pages/about.html
    StrPages \o <<Slash>> \o StrAbout \o SlashIndexHtml } \* pages/about/index.html

\* Option<T>: None is the empty sequence, Some(x) the one-element sequence
None == <<>>
Some(x) == <<x>>
IsSome(o) == Len(o) = 1
Unwrap(o) == o[1]

\* req.app_data::<Data<Tera>>(): a Tera instance with its template names, or
\* no Tera instance registered
AppDatas ==
  { [tera |-> FALSE, templates |-> {}] } \cup
  { [tera |-> TRUE, templates |-> T] : T \in SUBSET TemplateNames }

\* results of the wrapped service: Ok(response) or Err(error)
ServiceResults ==
  { [ok |-> TRUE, status |-> 404,
     body |-> [by |-> "service", template |-> None, context |-> None]],
    [ok |-> FALSE, status |-> 500,
     body |-> [by |-> "service error", template |-> None, context |-> None]] }

\* ------------------------------------------------------------------------
\* Pure functions of lib.rs
\* ------------------------------------------------------------------------

\* str::trim_end_matches(c): remove every trailing c
RECURSIVE TrimEndMatches(_, _)
TrimEndMatches(s, c) ==
  IF Len(s) > 0 /\ s[Len(s)] = c
    THEN TrimEndMatches(SubSeq(s, 1, Len(s) - 1), c)
    ELSE s

\* str::trim_start_matches(c): remove every leading c
RECURSIVE TrimStartMatches(_, _)
TrimStartMatches(s, c) ==
  IF Len(s) > 0 /\ s[1] = c
    THEN TrimStartMatches(Tail(s), c)
    ELSE s

\* str::trim_matches(c): remove every leading and every trailing c
TrimMatches(s, c) == TrimStartMatches(TrimEndMatches(s, c), c)

\* variant of NormalizePrefix: trim_end_matches in place of trim_matches
NormalizePrefix_TrailingOnly(prefix) == TrimEndMatches(prefix, Slash)

\* new_transform: the prefix stored in the middleware
NormalizePrefix(prefix) == TrimMatches(prefix, Slash)

\* variant of IsGet: the method filter is missing
IsGet_NoFilter(method) == TRUE

\* the method filter of call
IsGet(method) == method = "GET"

\* variant of TrimmedPath: the trailing '/' are not trimmed
TrimmedPath_NoTrim(reqPath) == reqPath

\* variant of TrimmedPath: strip_suffix('/'), one trailing '/' at most
TrimmedPath_OneSlash(reqPath) ==
  IF Len(reqPath) > 0 /\ reqPath[Len(reqPath)] = Slash
    THEN SubSeq(reqPath, 1, Len(reqPath) - 1)
    ELSE reqPath

\* let path = req.path().trim_end_matches('/')
TrimmedPath(reqPath) == TrimEndMatches(reqPath, Slash)

\* variant of Candidates: the two candidates in the other order
Candidates_Swapped(prefix, reqPath) ==
  LET path == TrimEndMatches(reqPath, Slash) IN
  IF path # <<>>
    THEN << prefix \o path \o SlashIndexHtml,
            prefix \o path \o DotHtml >>
    ELSE << prefix \o SlashIndexHtml >>

\* variant of Candidates: no special case for the empty path
Candidates_NoRootCase(prefix, reqPath) ==
  LET path == TrimEndMatches(reqPath, Slash) IN
  << prefix \o path \o DotHtml,
     prefix \o path \o SlashIndexHtml >>

\* the candidates built from the stored prefix and the request path
Candidates(prefix, reqPath) ==
  LET path == TrimmedPath(reqPath) IN
  IF path # <<>>
    THEN << prefix \o path \o DotHtml,
            prefix \o path \o SlashIndexHtml >>
    ELSE << prefix \o SlashIndexHtml >>

\* the scan of the candidates against the template names: every candidate
\* that is a template name overwrites matched_template
RECURSIVE ScanFrom(_, _, _, _)
ScanFrom(candidates, templates, i, matched_template) ==
  IF i > Len(candidates)
    THEN matched_template
    ELSE ScanFrom(candidates, templates, i + 1,
                  IF candidates[i] \in templates
                    THEN Some(candidates[i])
                    ELSE matched_template)

\* variant of MatchScan: the scan stops at the first candidate found
MatchScan_FirstWins(candidates, templates) ==
  LET found == { i \in 1..Len(candidates) : candidates[i] \in templates } IN
  IF found = {}
    THEN None
    ELSE Some(candidates[CHOOSE i \in found : \A j \in found : i <= j])

\* t.ends_with(c)
EndsWith(t, c) ==
  /\ Len(c) <= Len(t)
  /\ SubSeq(t, Len(t) - Len(c) + 1, Len(t)) = c

\* variant of MatchScan: a candidate matches when a template name ends
\* with it
MatchScan_SuffixMatch(candidates, templates) ==
  LET found == { i \in 1..Len(candidates) :
                   \E t \in templates : EndsWith(t, candidates[i]) } IN
  IF found = {}
    THEN None
    ELSE Some(candidates[CHOOSE i \in found : \A j \in found : j <= i])

MatchScan(candidates, templates) == ScanFrom(candidates, templates, 1, None)

\* variant of Forward: an error of the service is turned into a response
Forward_ErrToResponse(res) ==
  [ok |-> TRUE, status |-> res.status, body |-> res.body]

\* what `?` and Ok(r) of the forwarding futures do to the service's result:
\* Ok(response) stays Ok(response), Err(e) is returned as Err(e.into())
Forward(res) ==
  IF res.ok
    THEN [ok |-> TRUE, status |-> res.status, body |-> res.body]
    ELSE [ok |-> FALSE, status |-> res.status, body |-> res.body]

\* Tera::render(template, context): the rendered text, or an error when the
\* context lacks a variable the template uses
TeraRender(template, context) ==
  [ok |-> context.complete,
   text |-> [by |-> "tera", template |-> Some(template),
             context |-> Some(context)]]

\* variant of TeraRegistered: a missing Tera is taken for an empty one
TeraRegistered_Lenient(appData) == TRUE

\* req.app_data::<Data<Tera>>() is Some
TeraRegistered(appData) == appData.tera

\* variant of PrefixAfterCall: the candidate is built in place, in the
\* stored prefix
PrefixAfterCall_Append(prefix, reqPath) ==
  prefix \o TrimEndMatches(reqPath, Slash)

\* self.template_prefix after call: format! borrows the prefix of &self and
\* builds new strings, the stored prefix is left as it is
PrefixAfterCall(prefix, reqPath) == prefix

\* variant of AwaitedContext: the context future is kept in one slot shared
\* by the requests, which holds the one made last
AwaitedContext_Shared(r, futures) ==
  LET made == { q \in DOMAIN futures : IsSome(futures[q]) } IN
  Unwrap(futures[CHOOSE q \in made : \A o \in made : o <= q])

\* context.await in the future of request r: the future made by the context
\* builder for r was moved into the async block of r; its context is the
\* one built from the request given to the builder
AwaitedContext(r, futures) == Unwrap(futures[r])

\* variant of CallOutcome: the Tera instance is looked up before the method
\* is tested
CallOutcome_TeraFirst(method, reqPath, appData, prefix) ==
  IF ~appData.tera
    THEN [pc |-> "panicked", candidates |-> <<>>, matched |-> None,
          service |-> 0, builder |-> 0]
  ELSE IF method # "GET"
    THEN [pc |-> "await_service", candidates |-> <<>>, matched |-> None,
          service |-> 1, builder |-> 0]
  ELSE LET candidates == Candidates(prefix, reqPath)
           matched_template == MatchScan(candidates, appData.templates)
       IN IF IsSome(matched_template)
            THEN [pc |-> "await_context", candidates |-> candidates,
                  matched |-> matched_template, service |-> 0, builder |-> 1]
            ELSE [pc |-> "await_service", candidates |-> candidates,
                  matched |-> matched_template, service |-> 1, builder |-> 0]

\* the synchronous part of call: which branch is taken, and what it invokes
CallOutcome(method, reqPath, appData, prefix) ==
  IF ~IsGet(method)
    THEN [pc |-> "await_service", candidates |-> <<>>, matched |-> None,
          service |-> 1, builder |-> 0]
  ELSE IF ~TeraRegistered(appData)
    THEN [pc |-> "panicked", candidates |-> <<>>, matched |-> None,
          service |-> 0, builder |-> 0]
  ELSE LET candidates == Candidates(prefix, reqPath)
           matched_template == MatchScan(candidates, appData.templates)
       IN IF IsSome(matched_template)
            THEN [pc |-> "await_context", candidates |-> candidates,
                  matched |-> matched_template, service |-> 0, builder |-> 1]
            ELSE [pc |-> "await_service", candidates |-> candidates,
                  matched |-> matched_template, service |-> 1, builder |-> 0]

\* variant of RenderOutcome: a failed render falls back to the service
RenderOutcome_Fallback(template, context) ==
  LET rendered == TeraRender(template, context) IN
  IF rendered.ok
    THEN [pc |-> "done", service |-> 0,
          result |-> Some([ok |-> TRUE, status |-> 200, body |-> rendered.text])]
    ELSE [pc |-> "await_service", service |-> 1, result |-> None]

\* variant of RenderOutcome: a failed render awaits a new context
RenderOutcome_Retry(template, context) ==
  LET rendered == TeraRender(template, context) IN
  IF rendered.ok
    THEN [pc |-> "done", service |-> 0,
          result |-> Some([ok |-> TRUE, status |-> 200, body |-> rendered.text])]
    ELSE [pc |-> "await_context", service |-> 0, result |-> None]

\* variant of RenderOutcome: unwrap_or_default, a failed render is answered
\* with an empty 200 response
RenderOutcome_Swallow(template, context) ==
  LET rendered == TeraRender(template, context) IN
  [pc |-> "done", service |-> 0,
   result |-> Some([ok |-> TRUE, status |-> 200, body |-> rendered.text])]

\* the async block of the intercepted branch, once the context is there:
\* HttpResponse::Ok().body(tera.render(&template, &context).unwrap())
RenderOutcome(template, context) ==
  LET rendered == TeraRender(template, context) IN
  IF rendered.ok
    THEN [pc |-> "done", service |-> 0,
          result |-> Some([ok |-> TRUE, status |-> 200, body |-> rendered.text])]
    ELSE [pc |-> "panicked", service |-> 0, result |-> None]

\* variant of DropOutcome: the render runs in a detached task, which goes on
\* after the future of the request is dropped
DropOutcome_Detached(state) ==
  [pc |-> "dropped", render |-> IF state = "await_context" THEN 1 ELSE 0]

\* the future returned by call is dropped while it is pending: the async
\* block owns the service future, or the context future, the template and
\* the Tera handle; they are dropped with it and nothing of it runs any more
DropOutcome(state) == [pc |-> "dropped", render |-> 0]

\* ------------------------------------------------------------------------
\* State
\* ------------------------------------------------------------------------

VARIABLES
  factory_prefix,   \* TeraPage.template_prefix, as given to TeraPage::new
  built,            \* new_transform has built the TeraPageMiddleware
  template_prefix,  \* TeraPageMiddleware.template_prefix
  app_data,         \* the application data the requests carry
  req,              \* req[r]: method and path of request r
  pc,               \* pc[r]: idle, await_service, await_context, done, panicked
  candidates,       \* candidates[r]: the candidate list call built for r
  matched,          \* matched[r]: matched_template of r
  svcCalls,         \* svcCalls[r]: calls of self.service.call with r
  ctxCalls,         \* ctxCalls[r]: calls of self.context_builder for r
  ctxArg,           \* ctxArg[r]: the request the context builder was given
  renderCalls,      \* renderCalls[r]: calls of tera.render for r
  rendered,         \* rendered[r]: template name and context given to tera.render
  svcResult,        \* svcResult[r]: what the wrapped service returned for r
  result            \* result[r]: what the future returned by call resolved to

vars == << factory_prefix, built, template_prefix, app_data, req, pc,
           candidates, matched, svcCalls, ctxCalls, ctxArg, renderCalls,
           rendered, svcResult, result >>

NoReq == [id |-> 0, method |-> "-", path |-> <<>>]

Init ==
  /\ factory_prefix \in ConfiguredPrefixes
  /\ built = FALSE
  /\ template_prefix = <<>>
  /\ app_data \in AppDatas
  /\ req = [r \in Reqs |-> NoReq]
  /\ pc = [r \in Reqs |-> "idle"]
  /\ candidates = [r \in Reqs |-> <<>>]
  /\ matched = [r \in Reqs |-> None]
  /\ svcCalls = [r \in Reqs |-> 0]
  /\ ctxCalls = [r \in Reqs |-> 0]
  /\ ctxArg = [r \in Reqs |-> None]
  /\ renderCalls = [r \in Reqs |-> 0]
  /\ rendered = [r \in Reqs |-> None]
  /\ svcResult = [r \in Reqs |-> None]
  /\ result = [r \in Reqs |-> None]

\* ------------------------------------------------------------------------
\* Actions
\* ------------------------------------------------------------------------

\* TeraPage::new_transform
NewTransform ==
  /\ ~built
  /\ built' = TRUE
  /\ template_prefix' = NormalizePrefix(factory_prefix)
  /\ UNCHANGED << factory_prefix, app_data, req, pc, candidates, matched,
                  svcCalls, ctxCalls, ctxArg, renderCalls, rendered,
                  svcResult, result >>

\* TeraPageMiddleware::call, up to the future it returns; the requests are
\* numbered in the order in which call receives them
Call(r) ==
  /\ built
  /\ pc[r] = "idle"
  /\ \A q \in Reqs : q < r => pc[q] # "idle"
  /\ \E method \in Methods, reqPath \in Paths :
       LET request == [id |-> r, method |-> method, path |-> reqPath]
           out == CallOutcome(method, reqPath, app_data, template_prefix)
       IN /\ req' = [req EXCEPT ![r] = request]
          /\ pc' = [pc EXCEPT ![r] = out.pc]
          /\ candidates' = [candidates EXCEPT ![r] = out.candidates]
          /\ matched' = [matched EXCEPT ![r] = out.matched]
          /\ svcCalls' = [svcCalls EXCEPT ![r] = @ + out.service]
          /\ ctxCalls' = [ctxCalls EXCEPT ![r] = @ + out.builder]
          /\ ctxArg' = [ctxArg EXCEPT ![r] =
                          IF out.builder > 0 THEN Some(request) ELSE @]
          /\ template_prefix' = PrefixAfterCall(template_prefix, reqPath)
  /\ UNCHANGED << factory_prefix, built, app_data,
                  renderCalls, rendered, svcResult, result >>

\* the future of a forwarded request resolves: req.await? then Ok(r)
ServiceDone(r) ==
  /\ pc[r] = "await_service"
  /\ \E res \in ServiceResults :
       /\ svcResult' = [svcResult EXCEPT ![r] = Some(res)]
       /\ result' = [result EXCEPT ![r] = Some(Forward(res))]
  /\ pc' = [pc EXCEPT ![r] = "done"]
  /\ UNCHANGED << factory_prefix, built, template_prefix, app_data, req,
                  candidates, matched, svcCalls, ctxCalls, ctxArg,
                  renderCalls, rendered >>

\* the future of an intercepted request resolves: context.await, then the
\* render and the response, without a suspension in between
ContextDone(r) ==
  /\ pc[r] = "await_context"
  /\ \E complete \in BOOLEAN :
       LET context == [from |-> AwaitedContext(r, ctxArg),
                       complete |-> complete]
           template == Unwrap(matched[r])
           out == RenderOutcome(template, context)
       IN /\ renderCalls' = [renderCalls EXCEPT ![r] = @ + 1]
          /\ rendered' = [rendered EXCEPT ![r] =
                            Some([template |-> template, context |-> context])]
          /\ pc' = [pc EXCEPT ![r] = out.pc]
          /\ svcCalls' = [svcCalls EXCEPT ![r] = @ + out.service]
          /\ result' = [result EXCEPT ![r] = out.result]
  /\ UNCHANGED << factory_prefix, built, template_prefix, app_data, req,
                  candidates, matched, ctxCalls, ctxArg, svcResult >>

Next ==
  \/ NewTransform
  \/ \E r \in Reqs : Call(r)
  \/ \E r \in Reqs : ServiceDone(r)
  \/ \E r \in Reqs : ContextDone(r)

Spec == Init /\ [][Next]_vars

\* the host drops the future of request r (the client went away) while it
\* awaits the service or the context builder
Drop(r) ==
  /\ pc[r] \in {"await_service", "await_context"}
  /\ LET out == DropOutcome(pc[r])
     IN /\ pc' = [pc EXCEPT ![r] = out.pc]
        /\ renderCalls' = [renderCalls EXCEPT ![r] = @ + out.render]
  /\ UNCHANGED << factory_prefix, built, template_prefix, app_data, req,
                  candidates, matched, svcCalls, ctxCalls, ctxArg, rendered,
                  svcResult, result >>

NextCancel ==
  \/ NewTransform
  \/ \E r \in Reqs : Call(r)
  \/ \E r \in Reqs : ServiceDone(r)
  \/ \E r \in Reqs : ContextDone(r)
  \/ \E r \in Reqs : Drop(r)

\* the middleware under a host that may drop pending requests; the service
\* and the context builder complete for the requests that are not dropped
SpecCancel ==
  /\ Init
  /\ [][NextCancel]_vars
  /\ WF_vars(NewTransform)
  /\ \A r \in Reqs : WF_vars(ServiceDone(r)) /\ WF_vars(ContextDone(r))

\* the wrapped service and the context builder eventually complete
FairSpec ==
  /\ Spec
  /\ WF_vars(NewTransform)
  /\ \A r \in Reqs : WF_vars(ServiceDone(r)) /\ WF_vars(ContextDone(r))

\* ------------------------------------------------------------------------
\* Vocabulary of the properties
\* ------------------------------------------------------------------------

AboutHtml == StrAbout \o DotHtml
PagesIndexHtml == StrPages \o SlashIndexHtml
PagesAboutHtml == StrPages \o <<Slash>> \o StrAbout \o DotHtml
PagesAboutIndexHtml == StrPages \o <<Slash>> \o StrAbout \o SlashIndexHtml

RootPath == <<Slash>>
AboutPath == <<Slash>> \o StrAbout

\* call has been entered for r
Arrived(r) == pc[r] # "idle"

\* r is a GET request for which call got hold of a Tera instance
ScannedGet(r) == Arrived(r) /\ req[r].method = "GET" /\ app_data.tera

\* the positions of the candidates of r that are template names
Registered(r) ==
  { i \in 1..Len(candidates[r]) : candidates[r][i] \in app_data.templates }

\* s without its trailing '/': the longest prefix of s not ending with '/'
NoTrailingSlash(s) ==
  LET keep == { k \in 0..Len(s) : k = 0 \/ s[k] # Slash } IN
  SubSeq(s, 1, CHOOSE k \in keep : \A j \in keep : j <= k)

\* s without its leading '/': the longest suffix of s not starting with '/'
NoLeadingSlash(s) ==
  LET keep == { k \in 1..(Len(s) + 1) : k = Len(s) + 1 \/ s[k] # Slash } IN
  SubSeq(s, CHOOSE k \in keep : \A j \in keep : k <= j, Len(s))

\* the response of r is the rendering of template with the context built
\* from r
RenderedResponse(r, template) ==
  /\ IsSome(result[r])
  /\ Unwrap(result[r]).ok
  /\ Unwrap(result[r]).status = 200
  /\ Unwrap(result[r]).body.by = "tera"
  /\ Unwrap(result[r]).body.template = Some(template)
  /\ IsSome(Unwrap(result[r]).body.context)
  /\ Unwrap(Unwrap(result[r]).body.context).from = req[r]

\* r was forwarded: one call of the service, no context, no render, and the
\* result is the one of the service
Delegated(r) ==
  /\ pc[r] \in {"await_service", "done"}
  /\ svcCalls[r] = 1
  /\ ctxCalls[r] = 0
  /\ renderCalls[r] = 0
  /\ pc[r] = "await_service" => result[r] = None
  /\ pc[r] = "done" => IsSome(svcResult[r]) /\ result[r] = svcResult[r]

\* r was intercepted: one call of the context builder with r, no call of the
\* service, and template is the one rendered
Intercepted(r, template) ==
  /\ pc[r] \in {"await_context", "done", "panicked"}
  /\ svcCalls[r] = 0
  /\ ctxCalls[r] = 1
  /\ ctxArg[r] = Some(req[r])
  /\ matched[r] = Some(template)
  /\ pc[r] = "await_context" => renderCalls[r] = 0
  /\ pc[r] # "await_context" =>
       /\ renderCalls[r] = 1
       /\ Unwrap(rendered[r]).template = template
       /\ Unwrap(rendered[r]).context.from = req[r]
  /\ pc[r] = "done" => RenderedResponse(r, template)

\* ------------------------------------------------------------------------
\* C1 .. C10
\* ------------------------------------------------------------------------

\* C1: a request whose method is not GET is forwarded to the service exactly
\* once, whatever its path and the template names; the context builder and
\* the renderer are not called and the result is the service's result.
C1_NonGetDelegated ==
  \A r \in Reqs :
    (Arrived(r) /\ req[r].method # "GET") => Delegated(r)

\* a POST whose path would have matched a template has been answered by the
\* service
C1_Witness ==
  \E r \in Reqs :
    /\ req[r].method = "POST"
    /\ pc[r] = "done"
    /\ app_data.tera
    /\ \E i \in 1..Len(Candidates(template_prefix, req[r].path)) :
         Candidates(template_prefix, req[r].path)[i] \in app_data.templates
    /\ result[r] = svcResult[r]

\* C2: a GET request none of whose candidates is a template name is
\* forwarded to the service exactly once, the context builder and the
\* renderer are not called, and the result (response or error) is the
\* service's result unmodified.
C2_NoMatchDelegated ==
  \A r \in Reqs :
    (ScannedGet(r) /\ Registered(r) = {}) => Delegated(r)

\* a GET without a match has got the error of the service as its result
C2_Witness ==
  \E r \in Reqs :
    /\ ScannedGet(r)
    /\ Registered(r) = {}
    /\ app_data.templates # {}
    /\ pc[r] = "done"
    /\ ~Unwrap(svcResult[r]).ok
    /\ result[r] = svcResult[r]

\* C3: GET /about with the empty prefix and about.html as the only template
\* is intercepted: about.html is rendered with the context built from that
\* request and the service is not called.
C3_AboutIntercepted ==
  \A r \in Reqs :
    ( /\ ScannedGet(r)
      /\ factory_prefix = <<>>
      /\ app_data.templates = {AboutHtml}
      /\ req[r].path = AboutPath )
    => Intercepted(r, AboutHtml)

\* C4: GET / with the prefix "pages" and pages/index.html as the only
\* template is intercepted, pages/index.html is rendered and the service is
\* not called.
C4_RootIndexRendered ==
  \A r \in Reqs :
    ( /\ ScannedGet(r)
      /\ factory_prefix = StrPages
      /\ app_data.templates = {PagesIndexHtml}
      /\ req[r].path = RootPath )
    => Intercepted(r, PagesIndexHtml)

\* GET / has been answered with the rendering of pages/index.html
C4_Witness ==
  \E r \in Reqs :
    /\ ScannedGet(r)
    /\ factory_prefix = StrPages
    /\ app_data.templates = {PagesIndexHtml}
    /\ req[r].path = RootPath
    /\ pc[r] = "done"
    /\ RenderedResponse(r, PagesIndexHtml)

\* C5: the selected template is the last candidate, in candidate order, that
\* is a template name; with both candidates registered it is the second,
\* the directory index.
C5_LastMatchWins ==
  \A r \in Reqs :
    ScannedGet(r) =>
      /\ Registered(r) = {} => matched[r] = None
      /\ Registered(r) # {} =>
           LET last == CHOOSE i \in Registered(r) :
                         \A j \in Registered(r) : j <= i
           IN /\ matched[r] = Some(candidates[r][last])
              /\ renderCalls[r] > 0 =>
                   Unwrap(rendered[r]).template = candidates[r][last]
      /\ Registered(r) = {1, 2} =>
           matched[r] =
             Some(template_prefix \o NoTrailingSlash(req[r].path)
                    \o SlashIndexHtml)

\* both candidates are template names and the directory index was rendered
C5_Witness ==
  \E r \in Reqs :
    /\ ScannedGet(r)
    /\ Registered(r) = {1, 2}
    /\ candidates[r][1] # candidates[r][2]
    /\ pc[r] = "done"
    /\ RenderedResponse(r, candidates[r][2])

\* C6 as stated: with p the request path without its leading and trailing
\* '/', p not empty, the candidate list is [pre+p+".html",
\* pre+p+"/index.html"].
C6_CandidatesOfFullyTrimmedPath ==
  \A r \in Reqs :
    LET p == NoLeadingSlash(NoTrailingSlash(req[r].path)) IN
    (ScannedGet(r) /\ p # <<>>) =>
      candidates[r] = << template_prefix \o p \o DotHtml,
                         template_prefix \o p \o SlashIndexHtml >>

\* C6 amended: with p the request path without its trailing '/' only (the
\* leading '/' is kept), p not empty, the candidate list is
\* [pre+p+".html", pre+p+"/index.html"], in that order.
C6_CandidatesOfTrimmedPath ==
  \A r \in Reqs :
    LET p == NoTrailingSlash(req[r].path) IN
    (ScannedGet(r) /\ p # <<>>) =>
      candidates[r] = << template_prefix \o p \o DotHtml,
                         template_prefix \o p \o SlashIndexHtml >>

\* the candidates of GET /about/ under the prefix "pages" were built
C6_Witness ==
  \E r \in Reqs :
    /\ ScannedGet(r)
    /\ req[r].path = AboutPath \o <<Slash>>
    /\ template_prefix = StrPages
    /\ candidates[r] = << PagesAboutHtml, PagesAboutIndexHtml >>

\* C7: when the trimmed path is empty the candidate list is
\* [pre+"/index.html"]; the candidate list is never empty.
C7_RootCandidate ==
  \A r \in Reqs :
    ScannedGet(r) =>
      /\ NoTrailingSlash(req[r].path) = <<>> =>
           candidates[r] = << template_prefix \o SlashIndexHtml >>
      /\ Len(candidates[r]) >= 1

\* the one candidate of GET / under the prefix "pages" was built
C7_Witness ==
  \E r \in Reqs :
    /\ ScannedGet(r)
    /\ req[r].path = RootPath
    /\ template_prefix = StrPages
    /\ candidates[r] = << PagesIndexHtml >>

\* C8: no request is both rendered and forwarded, and once a candidate has
\* matched the service is not called for that request, also when the render
\* fails.
C8_InterceptXorDelegate ==
  \A r \in Reqs :
    /\ ~(renderCalls[r] > 0 /\ svcCalls[r] > 0)
    /\ ~(ctxCalls[r] > 0 /\ svcCalls[r] > 0)
    /\ IsSome(matched[r]) => svcCalls[r] = 0 /\ svcResult[r] = None

\* the render of a matched template failed and the service was not called
C8_Witness ==
  \E r \in Reqs :
    /\ IsSome(matched[r])
    /\ renderCalls[r] = 1
    /\ ~Unwrap(rendered[r]).context.complete
    /\ pc[r] = "panicked"
    /\ svcCalls[r] = 0

\* position of a request in the per-request state machine
Rank(state) ==
  CASE state = "idle" -> 0
    [] state \in {"await_service", "await_context"} -> 1
    [] state \in {"done", "panicked"} -> 2

\* a request takes a step when anything recorded about it changes
Steps(r) ==
  \/ pc'[r] # pc[r]
  \/ renderCalls'[r] # renderCalls[r]
  \/ svcCalls'[r] # svcCalls[r]
  \/ ctxCalls'[r] # ctxCalls[r]

\* C9 as stated: every request eventually reaches Done with a response
\* produced.
C9_AlwaysDone ==
  \A r \in Reqs : Arrived(r) ~> (pc[r] = "done" /\ IsSome(result[r]))

\* C9 amended: every request eventually reaches a terminal state, which is
\* Done with a result (the rendered response, or the response or error of
\* the service) or a panic (no Tera registered, or the render failed); every
\* step of a request moves it forward, and a terminal request takes no step.
\* (Requests arrive finitely often and terminal states are left by no step,
\* so "every arrived request eventually terminates" is stated as: from some
\* point on every arrived request is terminal.)
C9_Terminates ==
  /\ <>[](\A r \in Reqs :
           Arrived(r) => ( \/ (pc[r] = "done" /\ IsSome(result[r]))
                           \/ (pc[r] = "panicked" /\ result[r] = None) ))
  /\ [][\A r \in Reqs :
          /\ pc'[r] # pc[r] => Rank(pc'[r]) > Rank(pc[r])
          /\ Steps(r) => Rank(pc'[r]) > Rank(pc[r])]_vars

\* a request whose render failed ended in a panic and without a result
C9_Witness ==
  \E r \in Reqs :
    /\ pc[r] = "panicked"
    /\ renderCalls[r] = 1
    /\ result[r] = None
    /\ \E q \in Reqs : pc[q] = "done" /\ renderCalls[q] = 1

\* C10: a GET request that finds no Tera instance in the application data
\* panics: nothing is rendered, the context builder and the service are not
\* called, whatever the path.
C10_MissingTeraPanics ==
  \A r \in Reqs :
    (Arrived(r) /\ req[r].method = "GET" /\ ~app_data.tera) =>
      /\ pc[r] = "panicked"
      /\ result[r] = None
      /\ svcCalls[r] = 0
      /\ ctxCalls[r] = 0
      /\ renderCalls[r] = 0
      /\ matched[r] = None

\* GET requests to two different paths panicked for want of a Tera instance
C10_Witness ==
  \E r, q \in Reqs :
    /\ ~app_data.tera
    /\ req[r].method = "GET" /\ req[q].method = "GET"
    /\ req[r].path = RootPath /\ req[q].path = AboutPath
    /\ pc[r] = "panicked" /\ pc[q] = "panicked"

\* ------------------------------------------------------------------------
\* C11 .. C20
\* ------------------------------------------------------------------------

\* tera.render was called for r and returned an error
RenderFailed(r) ==
  /\ renderCalls[r] > 0
  /\ IsSome(rendered[r])
  /\ ~Unwrap(rendered[r]).context.complete

\* the step leaves everything recorded about request q as it is
Untouched(q) ==
  /\ req'[q] = req[q]
  /\ pc'[q] = pc[q]
  /\ candidates'[q] = candidates[q]
  /\ matched'[q] = matched[q]
  /\ svcCalls'[q] = svcCalls[q]
  /\ ctxCalls'[q] = ctxCalls[q]
  /\ ctxArg'[q] = ctxArg[q]
  /\ renderCalls'[q] = renderCalls[q]
  /\ rendered'[q] = rendered[q]
  /\ svcResult'[q] = svcResult[q]
  /\ result'[q] = result[q]

\* C11: a failed render of a matched template is fatal to its request: no
\* response (no 200) is produced for it, the request ends in the panic, the
\* service is not called as a fallback; the step in which the render fails
\* changes nothing of the other requests.
C11_RenderFailureFatal ==
  /\ [](\A r \in Reqs :
          RenderFailed(r) =>
            /\ pc[r] = "panicked"
            /\ result[r] = None
            /\ svcCalls[r] = 0
            /\ svcResult[r] = None)
  /\ [][\A r \in Reqs :
          (renderCalls'[r] # renderCalls[r] /\ ~Unwrap(rendered'[r]).context.complete)
            => \A q \in Reqs \ {r} : Untouched(q)]_vars

\* the render failed for one request, and another request to the same path
\* got its rendered response
C11_Witness ==
  \E r, q \in Reqs :
    /\ r # q
    /\ RenderFailed(r)
    /\ pc[r] = "panicked"
    /\ req[q].path = req[r].path
    /\ pc[q] = "done"
    /\ RenderedResponse(q, Unwrap(matched[r]))

\* C12: the prefix stored in the middleware is the configured prefix without
\* its leading and trailing '/' ("/pages/" and "pages" give the same); it is
\* set by new_transform and is the same at every later request, whose
\* candidates start with it.
C12_PrefixNormalizedOnce ==
  /\ [](built =>
          /\ template_prefix = NoLeadingSlash(NoTrailingSlash(factory_prefix))
          /\ factory_prefix \in {StrPages, <<Slash>> \o StrPages \o <<Slash>>}
               => template_prefix = StrPages
          /\ \A r \in Reqs :
               ScannedGet(r) =>
                 candidates[r][Len(candidates[r])] =
                   NoLeadingSlash(NoTrailingSlash(factory_prefix))
                     \o NoTrailingSlash(req[r].path) \o SlashIndexHtml)
  /\ [][built => (built' /\ template_prefix' = template_prefix)]_vars

\* the middleware built from "/pages/" has answered a GET with a rendering
C12_Witness ==
  /\ built
  /\ factory_prefix = <<Slash>> \o StrPages \o <<Slash>>
  /\ template_prefix = StrPages
  /\ \E r \in Reqs :
       /\ req[r].path = AboutPath
       /\ pc[r] = "done"
       /\ RenderedResponse(r, PagesAboutHtml)

\* C13: no step of the middleware, under any interleaving of the requests,
\* changes the template names of the Tera instance or the stored prefix.
C13_SharedStateReadOnly ==
  /\ [][app_data' = app_data]_vars
  /\ [][built => template_prefix' = template_prefix]_vars
  /\ [][(\E r \in Reqs : ~Untouched(r)) =>
          (app_data' = app_data /\ template_prefix' = template_prefix)]_vars

\* a forwarded POST was answered while an earlier, intercepted GET still
\* awaits its context, under the prefix "pages"
C13_Witness ==
  \E r, q \in Reqs :
    /\ r < q
    /\ pc[r] = "await_context"
    /\ req[r].path = AboutPath
    /\ pc[q] = "done"
    /\ req[q].method = "POST"
    /\ template_prefix = StrPages

\* C14: for an intercepted request the context builder is called exactly
\* once, with that request; the render comes after it and takes the context
\* built for that same request; for a forwarded request the context builder
\* is not called; the response of an intercepted request is 200 with the
\* rendering of the matched template with that context.
C14_ContextPerRequest ==
  \A r \in Reqs :
    /\ req[r].id \in {0, r}
    /\ (Arrived(r) /\ IsSome(matched[r])) =>
          /\ ctxCalls[r] = 1
          /\ ctxArg[r] = Some(req[r])
          /\ req[r].id = r
    /\ renderCalls[r] > 0 =>
          /\ renderCalls[r] = 1
          /\ ctxCalls[r] = 1
          /\ Unwrap(rendered[r]).context.from = req[r]
          /\ Unwrap(rendered[r]).context.from.id = r
          /\ Unwrap(rendered[r]).template = Unwrap(matched[r])
    /\ svcCalls[r] > 0 => (ctxCalls[r] = 0 /\ ctxArg[r] = None)
    /\ (pc[r] = "done" /\ renderCalls[r] > 0) =>
          result[r] =
            Some([ok |-> TRUE, status |-> 200,
                  body |-> [by |-> "tera",
                            template |-> matched[r],
                            context |-> Some(Unwrap(rendered[r]).context)]])

\* two intercepted requests to the same path were in flight together and
\* each was answered with the context built from itself
C14_Witness ==
  \E r, q \in Reqs :
    /\ r < q
    /\ req[r].path = req[q].path
    /\ pc[r] = "done" /\ pc[q] = "done"
    /\ renderCalls[r] = 1 /\ renderCalls[q] = 1
    /\ Unwrap(Unwrap(result[r]).body.context).from.id = r
    /\ Unwrap(Unwrap(result[q]).body.context).from.id = q

\* C15: a request suspends at one point only: a forwarded request while it
\* awaits the service, an intercepted one while it awaits the context
\* builder; call runs from the method filter to that point in one step, and
\* the step that ends the await of the context also renders and produces the
\* response (or the panic), so that no other request acts in between.
C15_OneSuspensionPoint ==
  /\ [](\A r \in Reqs :
          /\ pc[r] = "await_service" =>
               (svcCalls[r] = 1 /\ ctxCalls[r] = 0 /\ renderCalls[r] = 0)
          /\ pc[r] = "await_context" =>
               (ctxCalls[r] = 1 /\ svcCalls[r] = 0 /\ renderCalls[r] = 0)
          /\ renderCalls[r] > 0 => pc[r] \in {"done", "panicked"})
  /\ [][\A r \in Reqs :
          /\ (pc[r] = "idle" /\ pc'[r] # "idle") =>
               pc'[r] \in {"await_service", "await_context", "panicked"}
          /\ pc[r] = "await_service" => pc'[r] \in {"await_service", "done"}
          /\ pc[r] = "await_context" =>
               pc'[r] \in {"await_context", "done", "panicked"}
          /\ (pc[r] = "await_context" /\ pc'[r] # "await_context") =>
               /\ renderCalls'[r] = renderCalls[r] + 1
               /\ pc'[r] = "done" => IsSome(result'[r])
               /\ \A q \in Reqs \ {r} : Untouched(q)
          /\ renderCalls'[r] # renderCalls[r] =>
               (pc[r] = "await_context" /\ pc'[r] \in {"done", "panicked"})
          /\ pc[r] \in {"done", "panicked"} => Untouched(r)]_vars

\* a request was rendered and answered while an earlier one still awaits
\* its context
C15_Witness ==
  \E r, q \in Reqs :
    /\ r < q
    /\ pc[q] = "done"
    /\ RenderedResponse(q, Unwrap(matched[q]))
    /\ pc[r] = "await_context"
    /\ renderCalls[r] = 0

\* what the code does with request q when q is not dropped: forwarded,
\* intercepted or panicked, as decided by its method, its path, the prefix
\* and the template names
Outcome(q) ==
  /\ req[q].method # "GET" => Delegated(q)
  /\ (req[q].method = "GET" /\ ~app_data.tera) => pc[q] = "panicked"
  /\ (ScannedGet(q) /\ Registered(q) = {}) => Delegated(q)
  /\ (ScannedGet(q) /\ Registered(q) # {}) =>
       Intercepted(q, candidates[q][CHOOSE i \in Registered(q) :
                                      \A j \in Registered(q) : j <= i])

\* C16: a request dropped while it awaits the context builder or the service
\* ends without a response and nothing is rendered for it afterwards; the
\* drop changes neither the template names, nor the prefix, nor anything of
\* the other requests, which get the outcome they would have had and still
\* complete.
C16_CancellationIsLocal ==
  /\ [](\A r \in Reqs :
          pc[r] = "dropped" =>
            (result[r] = None /\ rendered[r] = None /\ renderCalls[r] = 0))
  /\ [][\A r \in Reqs : pc[r] = "dropped" => Untouched(r)]_vars
  /\ [][\A r \in Reqs :
          (pc[r] # "dropped" /\ pc'[r] = "dropped") =>
            /\ pc[r] \in {"await_service", "await_context"}
            /\ app_data' = app_data
            /\ template_prefix' = template_prefix
            /\ \A q \in Reqs \ {r} : Untouched(q)]_vars
  /\ [](\A q \in Reqs : (Arrived(q) /\ pc[q] # "dropped") => Outcome(q))
  /\ <>[](\A q \in Reqs :
            Arrived(q) => pc[q] \in {"done", "panicked", "dropped"})

\* a request was dropped while it awaited its context, and another request
\* to the same path got its rendered response
C16_Witness ==
  \E r, q \in Reqs :
    /\ r # q
    /\ pc[r] = "dropped"
    /\ ctxCalls[r] = 1
    /\ IsSome(matched[r])
    /\ req[q].path = req[r].path
    /\ pc[q] = "done"
    /\ RenderedResponse(q, Unwrap(matched[r]))

\* C17: candidate resolution is a function of the request path and the
\* stored prefix, and the decision and the selected template of a GET
\* request a function of path, prefix and template names: two GET requests
\* to the same path, whatever happened in between, get the same candidates,
\* the same matched template and the same branch.
C17_ResolutionPure ==
  \A r, q \in Reqs :
    (ScannedGet(r) /\ ScannedGet(q) /\ req[r].path = req[q].path) =>
      /\ candidates[r] = candidates[q]
      /\ matched[r] = matched[q]
      /\ svcCalls[r] = svcCalls[q]
      /\ ctxCalls[r] = ctxCalls[q]

\* two GET requests to /about were resolved, the second after the first was
\* answered, and both matched the same template
C17_Witness ==
  \E r, q \in Reqs :
    /\ r < q
    /\ ScannedGet(r) /\ ScannedGet(q)
    /\ req[r].path = AboutPath /\ req[q].path = AboutPath
    /\ pc[r] = "done"
    /\ pc[q] = "await_context"
    /\ IsSome(matched[q])
    /\ matched[r] = matched[q]

\* the candidates of a GET request, from its path and the stored prefix
CandidateSet(r) ==
  LET p == NoTrailingSlash(req[r].path) IN
  IF p = <<>>
    THEN { template_prefix \o SlashIndexHtml }
    ELSE { template_prefix \o p \o DotHtml,
           template_prefix \o p \o SlashIndexHtml }

\* C18: the template name given to the renderer is a template name of the
\* Tera instance and, character for character, one of the candidates of the
\* request; the same holds of the template for which the context builder is
\* called.
C18_RenderedIsRegisteredCandidate ==
  \A r \in Reqs :
    /\ renderCalls[r] > 0 =>
         /\ Unwrap(rendered[r]).template \in app_data.templates
         /\ Unwrap(rendered[r]).template \in CandidateSet(r)
         /\ \E i \in 1..Len(candidates[r]) :
              candidates[r][i] = Unwrap(rendered[r]).template
    /\ ctxCalls[r] > 0 =>
         /\ IsSome(matched[r])
         /\ Unwrap(matched[r]) \in app_data.templates
         /\ Unwrap(matched[r]) \in CandidateSet(r)

\* the renderer was called with the first candidate, the only one of the
\* two that is registered, while other templates are registered too
C18_Witness ==
  \E r \in Reqs :
    /\ renderCalls[r] = 1
    /\ Len(candidates[r]) = 2
    /\ Registered(r) = {1}
    /\ Unwrap(rendered[r]).template = candidates[r][1]
    /\ Cardinality(app_data.templates) >= 3

\* the path consists of '/' only
OnlySlashes(path) == \A i \in 1..Len(path) : path[i] = Slash

\* C19: trailing '/' do not change the resolution: GET requests to paths
\* that differ in their trailing '/' only get the same candidates and the
\* same branch, and a path made of '/' only is the site root, with the one
\* candidate prefix+"/index.html".
C19_TrailingSlashIrrelevant ==
  /\ \A r, q \in Reqs :
       ( /\ ScannedGet(r) /\ ScannedGet(q)
         /\ NoTrailingSlash(req[r].path) = NoTrailingSlash(req[q].path) )
       => /\ candidates[r] = candidates[q]
          /\ matched[r] = matched[q]
          /\ svcCalls[r] = svcCalls[q]
          /\ ctxCalls[r] = ctxCalls[q]
  /\ \A r \in Reqs :
       (ScannedGet(r) /\ OnlySlashes(req[r].path)) =>
         /\ candidates[r] = << template_prefix \o SlashIndexHtml >>
         /\ matched[r] = IF template_prefix \o SlashIndexHtml \in app_data.templates
                           THEN Some(template_prefix \o SlashIndexHtml)
                           ELSE None

\* GET / and GET // were both answered with the rendering of
\* pages/index.html
C19_Witness ==
  \E r, q \in Reqs :
    /\ req[r].path = RootPath
    /\ req[q].path = <<Slash, Slash>>
    /\ pc[r] = "done" /\ pc[q] = "done"
    /\ RenderedResponse(r, PagesIndexHtml)
    /\ RenderedResponse(q, PagesIndexHtml)

\* C20: the method filter comes before the lookup of the Tera instance: a
\* request that is not GET is forwarded and answered by the service also
\* when no Tera instance is registered, and only GET requests reach the
\* panic for the missing Tera instance.
C20_MethodFilterFirst ==
  \A r \in Reqs :
    /\ (Arrived(r) /\ req[r].method # "GET" /\ ~app_data.tera) =>
         /\ pc[r] \in {"await_service", "done"}
         /\ svcCalls[r] = 1
         /\ pc[r] = "done" => (IsSome(result[r]) /\ result[r] = svcResult[r])
    /\ (pc[r] = "panicked" /\ renderCalls[r] = 0) =>
         (req[r].method = "GET" /\ ~app_data.tera)
    /\ pc[r] = "panicked" => req[r].method = "GET"

\* without a Tera instance a GET panicked and a POST was answered by the
\* service
C20_Witness ==
  \E r, q \in Reqs :
    /\ ~app_data.tera
    /\ req[r].method = "GET"
    /\ pc[r] = "panicked"
    /\ req[q].method = "POST"
    /\ pc[q] = "done"
    /\ Unwrap(result[q]).ok

====
